---- MODULE Spec2Model ----
(***************************************************************************)
(* anemoi.models.data_indices: the index arrays of BaseTensorIndex         *)
(* (tensor.py) and the input/output pair of DataIndex and ModelIndex       *)
(* (index.py).                                                             *)
(*                                                                         *)
(* A name_to_index dict is a sequence of <<name, position>> pairs with     *)
(* distinct names, in insertion order.  A list of names is a sequence.     *)
(* A tensor is the sequence of its int32 elements.                         *)
(*                                                                         *)
(* mapping : the name_to_index dict the caller holds (for a ModelIndex,     *)
(*           name_to_index_model_input)                                    *)
(* call    : the arguments of the constructor call (what the object keeps  *)
(*           of them: includes, name_to_index, _diagnostic, ...)           *)
(* self    : the object the call produced, or the exception it raised      *)
(* other   : the right operand of ==                                       *)
(* ret     : what the last method call on self returned                    *)
(*                                                                         *)
(* Spec   : one constructor call, then len() or todict()                   *)
(* SpecEq : two objects built from the same mapping, then self == other    *)
(***************************************************************************)
EXTENDS Integers, Sequences, FiniteSets

VARIABLES mapping, call, self, other, ret

vars == <<mapping, call, self, other, ret>>

\* ---------------------------------------------------------------- bounds
\* keys handed to one constructor call, over all its name_to_index dicts
MaxVars == 2
\* names handed to one constructor call, over all its list arguments
MaxNames == 2

\* ---------------------------------------------------------------- inputs
VarNames == {"t", "z", "sp"}

\* torch.Tensor(list) is a float32 tensor: 24 bits of significand, every
\* integer up to 2^24 is exact
F32Exact == 16777216

\* torch.allclose(a, b): rtol = 1e-05 (1 / RtolInv), atol = 1e-08
RtolInv == 100000

\* positions below, at and above the last integer float32 holds exactly
Positions == {1, F32Exact, F32Exact + 1}

Range(s) == {s[i] : i \in DOMAIN s}

Lists(S, n) == UNION {[1..k -> S] : k \in 0..n}

\* dict.keys()
Keys(name_to_index) == {name_to_index[i][1] : i \in DOMAIN name_to_index}

IsDict(d) ==
    \A i, j \in DOMAIN d : i # j => (d[i][1] # d[j][1] /\ d[i][2] # d[j][2])

Dicts(n) == {d \in Lists(VarNames \X Positions, n) : IsDict(d)}

\* ---------------------------------------------------------------- tensors
RECURSIVE Ulp(_)
Ulp(n) == IF n < F32Exact THEN 1 ELSE 2 * Ulp(n \div 2)

\* int -> float32, round to nearest, ties to even (n >= 0)
Float32(n) ==
    LET u == Ulp(n)
        q == n \div u
        r == n % u
    IN  IF 2 * r < u THEN q * u
        ELSE IF 2 * r > u THEN (q + 1) * u
        ELSE IF q % 2 = 0 THEN q * u ELSE (q + 1) * u

\* torch.Tensor(values).to(torch.int): through float32, then truncated to
\* int32 (exact: the float is an integer below 2^31)
TensorToInt(values) == [i \in DOMAIN values |-> Float32(values[i])]

InsertSorted(x, s) ==
    LET k == Cardinality({i \in DOMAIN s : s[i] <= x})
    IN  SubSeq(s, 1, k) \o <<x>> \o SubSeq(s, k + 1, Len(s))

RECURSIVE sorted(_)
sorted(s) == IF s = <<>> THEN <<>> ELSE InsertSorted(Head(s), sorted(Tail(s)))

\* i for name, i in self.name_to_index.items() if name in var_list
ItemsIn(name_to_index, var_list) ==
    LET InList(kv) == kv[1] \in Range(var_list)
        items == SelectSeq(name_to_index, InList)
    IN  [i \in DOMAIN items |-> items[i][2]]

build_idx_unsorted(name_to_index, var_list) ==
    TensorToInt(ItemsIn(name_to_index, var_list))

build_idx_from_list(name_to_index, var_list) ==
    TensorToInt(sorted(ItemsIn(name_to_index, var_list)))

\* ---------------------------------------------------------------- tensor.py
None == [cls |-> "None"]

InvalidEntriesFirst(includes, name_to_index) ==
    LET NotKey(var) == var \notin Keys(name_to_index)
        bad == SelectSeq(includes, NotKey)
    IN  IF bad = <<>> THEN <<>> ELSE <<Head(bad)>>

\* [var for var in includes if var not in self.name_to_index]
InvalidEntries(includes, name_to_index) ==
    LET NotKey(var) == var \notin Keys(name_to_index)
    IN  SelectSeq(includes, NotKey)

AssertionError(entries) == [cls |-> "AssertionError", entries |-> entries]

Raised(obj) == obj.cls = "AssertionError"

BaseTensorIndex(cls, prognostic, diagnostic, forcing, targets, includes, name_to_index, known_future_variables, additional_model_variables) ==
    IF ~(Range(includes) \subseteq Keys(name_to_index))
    THEN AssertionError(InvalidEntries(includes, name_to_index))
    ELSE [cls |-> cls,
          prognostic |-> build_idx_from_list(name_to_index, prognostic),
          diagnostic |-> build_idx_from_list(name_to_index, diagnostic),
          forcing |-> build_idx_from_list(name_to_index, forcing),
          targets |-> build_idx_from_list(name_to_index, targets),
          full |-> build_idx_from_list(name_to_index, includes),
          known_future_variables |-> known_future_variables,
          additional_model_variables |-> additional_model_variables]

\* kwargs.pop("known_future_variables", []), kwargs.pop("additional_model_variables", [])
InputTensorIndex(prognostic, diagnostic, forcing, targets, includes, name_to_index, known_future_variables, additional_model_variables) ==
    BaseTensorIndex("InputTensorIndex", prognostic, diagnostic, forcing, targets,
                    includes, name_to_index,
                    known_future_variables, additional_model_variables)

\* **kwargs go to BaseTensorIndex.__init__, which drops them
OutputTensorIndex(prognostic, diagnostic, forcing, targets, includes, name_to_index) ==
    BaseTensorIndex("OutputTensorIndex", prognostic, diagnostic, forcing, targets,
                    includes, name_to_index, <<>>, <<>>)

InputLenOnce(idx) ==
    Len(idx.prognostic) + Len(idx.forcing)
        + Len(idx.known_future_variables) + Len(idx.additional_model_variables)

\* InputTensorIndex.__len__
InputLen(idx) ==
    Len(idx.prognostic) + Len(idx.forcing)
        + 2 * Len(idx.known_future_variables) + Len(idx.additional_model_variables)

\* OutputTensorIndex.__len__
OutputLen(idx) == Len(idx.full)

len(idx) == IF idx.cls = "InputTensorIndex" THEN InputLen(idx) ELSE OutputLen(idx)

\* BaseTensorIndex.todict
TensorToDict(idx) ==
    [prognostic |-> idx.prognostic, diagnostic |-> idx.diagnostic,
     forcing |-> idx.forcing, targets |-> idx.targets, full |-> idx.full]

IsTensorIndex(obj) == obj.cls \in {"InputTensorIndex", "OutputTensorIndex"}

\* ---------------------------------------------------------------- index.py
DerivePrognosticNoTargets(name_to_index, diagnostic, forcing, targets) ==
    LET Free(kv) == kv[1] \notin Range(forcing \o diagnostic)
        items == SelectSeq(name_to_index, Free)
    IN  [i \in DOMAIN items |-> items[i][1]]

\* [v for v in name_to_index.keys() if v not in set(forcing + diagnostic + targets)]
DerivePrognostic(name_to_index, diagnostic, forcing, targets) ==
    LET Free(kv) == kv[1] \notin Range(forcing \o diagnostic \o targets)
        items == SelectSeq(name_to_index, Free)
    IN  [i \in DOMAIN items |-> items[i][1]]

OutputIncludesAll(diagnostic, forcing, targets) == diagnostic \o targets \o forcing

\* includes=diagnostic + targets
OutputIncludes(diagnostic, forcing, targets) == diagnostic \o targets

\* includes=forcing + self._prognostic
InputIncludes(forcing, prognostic) == forcing \o prognostic

\* The two TensorIndex constructions of DataIndex.__init__ and
\* ModelIndex.__init__, input first: an exception of the first ends the call.
VariableIndex(cls, diagnostic, forcing, targets, name_to_index_input, name_to_index_output, known_future_variables, additional_model_variables) ==
    LET prognostic == DerivePrognostic(name_to_index_input, diagnostic, forcing, targets)
        input == InputTensorIndex(prognostic, diagnostic, forcing, targets,
                                  InputIncludes(forcing, prognostic), name_to_index_input,
                                  known_future_variables, additional_model_variables)
        output == OutputTensorIndex(prognostic, diagnostic, forcing, targets,
                                    OutputIncludes(diagnostic, forcing, targets),
                                    name_to_index_output)
    IN  IF Raised(input) THEN input
        ELSE IF Raised(output) THEN output
        ELSE [cls |-> cls, prognostic |-> prognostic, input |-> input, output |-> output]

DataIndex(diagnostic, forcing, targets, name_to_index) ==
    VariableIndex("DataIndex", diagnostic, forcing, targets,
                  name_to_index, name_to_index, <<>>, <<>>)

ModelIndex(diagnostic, forcing, targets, name_to_index_model_input, name_to_index_model_output, known_future_variables, additional_model_variables) ==
    VariableIndex("ModelIndex", diagnostic, forcing, targets,
                  name_to_index_model_input, name_to_index_model_output,
                  known_future_variables, additional_model_variables)

IsVariableIndex(obj) == obj.cls \in {"DataIndex", "ModelIndex"}

\* BaseIndex.todict
IndexToDict(obj) == [input |-> TensorToDict(obj.input), output |-> TensorToDict(obj.output)]

\* ---------------------------------------------------------------- __eq__
Abs(x) == IF x < 0 THEN -x ELSE x

\* torch.isclose on int32 elements: |x - y| <= atol + rtol * |y|; between two
\* different integers that is |x - y| * RtolInv <= |y|
isclose(x, y) == x = y \/ Abs(x - y) <= Abs(y) \div RtolInv

PyBool(b) == IF b THEN "True" ELSE "False"

\* torch.allclose(a, b) == isclose(a, b).all(): the two shapes broadcast when
\* they are equal or one of them is 1, and torch raises RuntimeError otherwise;
\* all() of no element is True
allclose(a, b) ==
    IF Len(a) = Len(b) THEN PyBool(\A i \in DOMAIN a : isclose(a[i], b[i]))
    ELSE IF Len(a) = 1 THEN PyBool(\A i \in DOMAIN b : isclose(a[1], b[i]))
    ELSE IF Len(b) = 1 THEN PyBool(\A i \in DOMAIN a : isclose(a[i], b[1]))
    ELSE "RuntimeError"

\* x and y: y is not evaluated unless x is True, an exception in x ends it
And(x, y) == IF x = "True" THEN y ELSE x

\* BaseTensorIndex.__eq__
TensorEq(a, b) ==
    IF ~IsTensorIndex(b) THEN "NotImplemented"
    ELSE And(And(And(And(allclose(a.prognostic, b.prognostic),
                         allclose(a.diagnostic, b.diagnostic)),
                     allclose(a.forcing, b.forcing)),
                 allclose(a.targets, b.targets)),
             allclose(a.full, b.full))

\* BaseIndex.__eq__
IndexEq(a, b) ==
    IF ~IsVariableIndex(b) THEN "NotImplemented"
    ELSE And(TensorEq(a.input, b.input), TensorEq(a.output, b.output))

DunderEq(a, b) == IF IsTensorIndex(a) THEN TensorEq(a, b) ELSE IndexEq(a, b)

\* a == b: a.__eq__(b), then the reflected b.__eq__(a), then identity (a and b
\* are two objects)
PyEq(a, b) ==
    IF DunderEq(a, b) # "NotImplemented" THEN DunderEq(a, b)
    ELSE IF DunderEq(b, a) # "NotImplemented" THEN DunderEq(b, a)
    ELSE "False"

\* ---------------------------------------------------------------- actions
\* no method has been called yet
Idle == [op |-> "none"]

Init ==
    /\ mapping \in Dicts(MaxVars)
    /\ call = Idle
    /\ self = None
    /\ other = None
    /\ ret = Idle

\* the names known_future_variables and additional_model_variables may hold:
\* __len__ reads only how many there are
ExtraNames == {"sp"}

NewInputTensorIndex ==
    /\ self = None
    /\ \E name_to_index \in {mapping} :
       \E prognostic \in Lists(VarNames, MaxNames) :
       \E diagnostic \in Lists(VarNames, MaxNames - Len(prognostic)) :
       \E forcing \in Lists(VarNames, MaxNames - Len(prognostic \o diagnostic)) :
       \E targets \in Lists(VarNames, MaxNames - Len(prognostic \o diagnostic \o forcing)) :
       \E includes \in Lists(VarNames,
                MaxNames - Len(prognostic \o diagnostic \o forcing \o targets)) :
       \E known \in Lists(ExtraNames,
                MaxNames - Len(prognostic \o diagnostic \o forcing \o targets \o includes)) :
       \E additional \in Lists(ExtraNames,
                MaxNames - Len(prognostic \o diagnostic \o forcing \o targets
                                   \o includes \o known)) :
          /\ call' = [op |-> "InputTensorIndex", prognostic |-> prognostic,
                      diagnostic |-> diagnostic, forcing |-> forcing, targets |-> targets,
                      includes |-> includes, name_to_index |-> name_to_index,
                      known_future_variables |-> known,
                      additional_model_variables |-> additional]
          /\ self' = InputTensorIndex(prognostic, diagnostic, forcing, targets, includes,
                                      name_to_index, known, additional)
    /\ UNCHANGED <<mapping, other, ret>>

NewOutputTensorIndex ==
    /\ self = None
    /\ \E name_to_index \in {mapping} :
       \E prognostic \in Lists(VarNames, MaxNames) :
       \E diagnostic \in Lists(VarNames, MaxNames - Len(prognostic)) :
       \E forcing \in Lists(VarNames, MaxNames - Len(prognostic \o diagnostic)) :
       \E targets \in Lists(VarNames, MaxNames - Len(prognostic \o diagnostic \o forcing)) :
       \E includes \in Lists(VarNames,
                MaxNames - Len(prognostic \o diagnostic \o forcing \o targets)) :
          /\ call' = [op |-> "OutputTensorIndex", prognostic |-> prognostic,
                      diagnostic |-> diagnostic, forcing |-> forcing, targets |-> targets,
                      includes |-> includes, name_to_index |-> name_to_index]
          /\ self' = OutputTensorIndex(prognostic, diagnostic, forcing, targets, includes,
                                       name_to_index)
    /\ UNCHANGED <<mapping, other, ret>>

NewDataIndex ==
    /\ self = None
    /\ \E name_to_index \in {mapping} :
       \E diagnostic \in Lists(VarNames, MaxNames) :
       \E forcing \in Lists(VarNames, MaxNames - Len(diagnostic)) :
       \E targets \in Lists(VarNames, MaxNames - Len(diagnostic \o forcing)) :
          /\ call' = [op |-> "DataIndex", diagnostic |-> diagnostic, forcing |-> forcing,
                      targets |-> targets, name_to_index |-> name_to_index]
          /\ self' = DataIndex(diagnostic, forcing, targets, name_to_index)
    /\ UNCHANGED <<mapping, other, ret>>

NewModelIndex ==
    /\ self = None
    /\ \E name_to_index_model_input \in {mapping} :
       \E name_to_index_model_output \in Dicts(MaxVars - Len(name_to_index_model_input)) :
       \E diagnostic \in Lists(VarNames, MaxNames) :
       \E forcing \in Lists(VarNames, MaxNames - Len(diagnostic)) :
       \E targets \in Lists(VarNames, MaxNames - Len(diagnostic \o forcing)) :
       \E known \in Lists(ExtraNames, MaxNames - Len(diagnostic \o forcing \o targets)) :
       \E additional \in Lists(ExtraNames,
                MaxNames - Len(diagnostic \o forcing \o targets \o known)) :
          /\ call' = [op |-> "ModelIndex", diagnostic |-> diagnostic, forcing |-> forcing,
                      targets |-> targets,
                      name_to_index_model_input |-> name_to_index_model_input,
                      name_to_index_model_output |-> name_to_index_model_output,
                      known_future_variables |-> known,
                      additional_model_variables |-> additional]
          /\ self' = ModelIndex(diagnostic, forcing, targets, name_to_index_model_input,
                                name_to_index_model_output, known, additional)
    /\ UNCHANGED <<mapping, other, ret>>

\* len(self), len(self.input), len(self.output)
Length ==
    /\ ret = Idle
    /\ \/ /\ IsTensorIndex(self)
          /\ ret' = [op |-> "len", of |-> "self", value |-> len(self)]
       \/ /\ IsVariableIndex(self)
          /\ \E of \in {"input", "output"} :
                ret' = [op |-> "len", of |-> of,
                        value |-> IF of = "input" THEN len(self.input) ELSE len(self.output)]
    /\ UNCHANGED <<mapping, call, self, other>>

\* self.todict()
ToDict ==
    /\ ret = Idle
    /\ \/ /\ IsTensorIndex(self)
          /\ ret' = [op |-> "todict", value |-> TensorToDict(self)]
       \/ /\ IsVariableIndex(self)
          /\ ret' = [op |-> "todict", value |-> IndexToDict(self)]
    /\ UNCHANGED <<mapping, call, self, other>>

Next ==
    \/ NewInputTensorIndex
    \/ NewOutputTensorIndex
    \/ NewDataIndex
    \/ NewModelIndex
    \/ Length
    \/ ToDict

Spec == Init /\ [][Next]_vars

\* ---------------------------------------------------------------- self == other
\* The operands of ==: an OutputTensorIndex or a DataIndex, built as above from
\* the same mapping.  The comparison reads the index arrays only, so the
\* arguments are not kept.
TensorOperand(obj) ==
    \E name_to_index \in {mapping} :
    \E prognostic \in Lists(VarNames, MaxNames) :
    \E diagnostic \in Lists(VarNames, MaxNames - Len(prognostic)) :
    \E forcing \in Lists(VarNames, MaxNames - Len(prognostic \o diagnostic)) :
    \E targets \in Lists(VarNames, MaxNames - Len(prognostic \o diagnostic \o forcing)) :
    \E includes \in Lists(VarNames,
             MaxNames - Len(prognostic \o diagnostic \o forcing \o targets)) :
       obj = OutputTensorIndex(prognostic, diagnostic, forcing, targets, includes,
                               name_to_index)

IndexOperand(obj) ==
    \E name_to_index \in {mapping} :
    \E diagnostic \in Lists(VarNames, MaxNames) :
    \E forcing \in Lists(VarNames, MaxNames - Len(diagnostic)) :
    \E targets \in Lists(VarNames, MaxNames - Len(diagnostic \o forcing)) :
       obj = DataIndex(diagnostic, forcing, targets, name_to_index)

OtherTensorIndex ==
    /\ other = None
    /\ TensorOperand(other')
    /\ ~Raised(other')
    /\ UNCHANGED <<mapping, call, self, ret>>

OtherDataIndex ==
    /\ other = None
    /\ IndexOperand(other')
    /\ ~Raised(other')
    /\ UNCHANGED <<mapping, call, self, ret>>

SelfTensorIndex ==
    /\ other # None
    /\ self = None
    /\ TensorOperand(self')
    /\ ~Raised(self')
    /\ UNCHANGED <<mapping, call, other, ret>>

SelfDataIndex ==
    /\ other # None
    /\ self = None
    /\ IndexOperand(self')
    /\ ~Raised(self')
    /\ UNCHANGED <<mapping, call, other, ret>>

\* self == other
Eq ==
    /\ self # None
    /\ other # None
    /\ ret = Idle
    /\ ret' = [op |-> "eq", value |-> PyEq(self, other)]
    /\ UNCHANGED <<mapping, call, self, other>>

NextEq ==
    \/ OtherTensorIndex
    \/ OtherDataIndex
    \/ SelfTensorIndex
    \/ SelfDataIndex
    \/ Eq

SpecEq == Init /\ [][NextEq]_vars

\* ---------------------------------------------------------------- properties
Roles == {"prognostic", "diagnostic", "forcing", "targets"}

\* the positions the dict gives to the names
PositionsOf(name_to_index, names) ==
    {name_to_index[i][2] : i \in {j \in DOMAIN name_to_index : name_to_index[j][1] \in names}}

Ascending(s) == \A i \in DOMAIN s : \A j \in DOMAIN s : i < j => s[i] <= s[j]

StrictlyAscending(s) == \A i \in DOMAIN s : \A j \in DOMAIN s : i < j => s[i] < s[j]

NoDuplicates(s) == \A i \in DOMAIN s : \A j \in DOMAIN s : i # j => s[i] # s[j]

Count(s, x) == Cardinality({i \in DOMAIN s : s[i] = x})

IsTensorCall(c) == c.op \in {"InputTensorIndex", "OutputTensorIndex"}

IsIndexCall(c) == c.op \in {"DataIndex", "ModelIndex"}

InputMap(c) == IF c.op = "ModelIndex" THEN c.name_to_index_model_input ELSE c.name_to_index

OutputMap(c) == IF c.op = "ModelIndex" THEN c.name_to_index_model_output ELSE c.name_to_index

\* the same elements in every order
Perms(s) ==
    IF Len(s) <= 1 THEN {s}
    ELSE {[i \in DOMAIN s |-> s[p[i]]] :
            p \in {q \in [DOMAIN s -> DOMAIN s] :
                      \A i, j \in DOMAIN s : i # j => q[i] # q[j]}}

\* the call c with its lists in another order
ListPermutedCalls(c) ==
    IF IsTensorCall(c)
    THEN {[c EXCEPT !.prognostic = p, !.diagnostic = d, !.forcing = f, !.targets = t,
                    !.includes = i] :
            p \in Perms(c.prognostic), d \in Perms(c.diagnostic), f \in Perms(c.forcing),
            t \in Perms(c.targets), i \in Perms(c.includes)}
    ELSE {[c EXCEPT !.diagnostic = d, !.forcing = f, !.targets = t] :
            d \in Perms(c.diagnostic), f \in Perms(c.forcing), t \in Perms(c.targets)}

\* the call c with the keys of its mappings inserted in another order
KeyPermutedCalls(c) ==
    IF c.op = "ModelIndex"
    THEN {[c EXCEPT !.name_to_index_model_input = n, !.name_to_index_model_output = m] :
            n \in Perms(c.name_to_index_model_input),
            m \in Perms(c.name_to_index_model_output)}
    ELSE {[c EXCEPT !.name_to_index = n] : n \in Perms(c.name_to_index)}

PermutedCalls(c) == ListPermutedCalls(c) \cup KeyPermutedCalls(c)

\* the constructor call c, made again
Construct(c) ==
    IF c.op = "InputTensorIndex"
    THEN InputTensorIndex(c.prognostic, c.diagnostic, c.forcing, c.targets, c.includes,
                          c.name_to_index, c.known_future_variables,
                          c.additional_model_variables)
    ELSE IF c.op = "OutputTensorIndex"
    THEN OutputTensorIndex(c.prognostic, c.diagnostic, c.forcing, c.targets, c.includes,
                           c.name_to_index)
    ELSE IF c.op = "DataIndex"
    THEN DataIndex(c.diagnostic, c.forcing, c.targets, c.name_to_index)
    ELSE ModelIndex(c.diagnostic, c.forcing, c.targets, c.name_to_index_model_input,
                    c.name_to_index_model_output, c.known_future_variables,
                    c.additional_model_variables)

ToDictOf(obj) == IF IsTensorIndex(obj) THEN TensorToDict(obj) ELSE IndexToDict(obj)

\* the object whose __len__ returned ret
Receiver == IF ret.of = "self" THEN self ELSE self[ret.of]

\* C1: a TensorIndex built from an includes list without duplicate names has
\* full strictly ascending, as long as includes, and holding exactly the
\* positions of the names of includes.
C1_FullIsSortedPositions ==
    (IsTensorIndex(self) /\ NoDuplicates(call.includes)) =>
        /\ StrictlyAscending(self.full)
        /\ Len(self.full) = Len(call.includes)
        /\ Range(self.full) = PositionsOf(call.name_to_index, Range(call.includes))

\* C2: every role array of a TensorIndex is ascending and holds exactly the
\* positions of the names of the role list that are keys of the mapping, whether
\* or not they are in includes; the other names of the list add nothing.
C2_RoleArraysAreRolePositions ==
    IsTensorIndex(self) =>
        \A R \in Roles :
            LET names == Range(call[R]) \cap Keys(call.name_to_index)
            IN  /\ Ascending(self[R])
                /\ Len(self[R]) = Cardinality(names)
                /\ Range(self[R]) = PositionsOf(call.name_to_index, names)

\* C3: a TensorIndex construction raises exactly when includes has a name that
\* is no key of the mapping; the exception lists those names of includes and no
\* other, and no index is built; with includes within the keys the index is built.
C3_InvalidIncludesRaise ==
    IsTensorCall(call) =>
        LET bad == Range(call.includes) \ Keys(call.name_to_index)
        IN  /\ Raised(self) <=> bad # {}
            /\ Raised(self) =>
                  /\ Range(self.entries) = bad
                  /\ \A name \in bad : Count(self.entries, name) = Count(call.includes, name)
            /\ bad = {} => self.cls = call.op

\* two different names of includes that are no keys of a mapping that has keys
C3_Witness ==
    /\ IsTensorCall(call)
    /\ Raised(self)
    /\ Keys(call.name_to_index) # {}
    /\ Len(self.entries) = 2
    /\ self.entries[1] # self.entries[2]

\* C4, as claimed: a DataIndex or ModelIndex construction whose diagnostic,
\* forcing or targets list has a name absent from the mapping does not raise.
C4_AbsentRoleNameNeverRaises ==
    (/\ IsIndexCall(call)
     /\ \E R \in {"diagnostic", "forcing", "targets"} :
           ~(Range(call[R]) \subseteq (Keys(InputMap(call)) \cap Keys(OutputMap(call)))))
        => ~Raised(self)

\* C4, amended: a DataIndex or ModelIndex construction raises exactly when
\* forcing has a name absent from the input mapping or diagnostic or targets a
\* name absent from the output mapping; when it does not raise, each role array
\* of .input and of .output has one element per name of the role list that is a
\* key of that view's mapping, the absent names being left out.
C4_AbsentRoleNameRaisesOnlyInIncludes ==
    IsIndexCall(call) =>
        LET kin == Keys(InputMap(call))
            kout == Keys(OutputMap(call))
        IN  /\ Raised(self) <=>
                  \/ ~(Range(call.forcing) \subseteq kin)
                  \/ ~(Range(call.diagnostic \o call.targets) \subseteq kout)
            /\ ~Raised(self) =>
                  \A R \in {"diagnostic", "forcing", "targets"} :
                      /\ Len(self.input[R]) = Cardinality(Range(call[R]) \cap kin)
                      /\ Len(self.output[R]) = Cardinality(Range(call[R]) \cap kout)

\* a ModelIndex built although diagnostic names a variable the input mapping
\* lacks and forcing one the output mapping lacks
C4_Witness ==
    /\ self.cls = "ModelIndex"
    /\ \E name \in Range(call.diagnostic) : name \notin Keys(InputMap(call))
    /\ \E name \in Range(call.forcing) : name \notin Keys(OutputMap(call))

\* C5, as claimed: len() of every Input TensorIndex is len(prognostic) +
\* len(forcing) + 2 * len(known_future) + len(additional), and differs from
\* len(full) whenever known_future or additional is not empty.
C5_InputLengthDiffersFromFull ==
    (ret.op = "len" /\ Receiver.cls = "InputTensorIndex") =>
        /\ ret.value = Len(Receiver.prognostic) + Len(Receiver.forcing)
                        + 2 * Len(call.known_future_variables)
                        + Len(call.additional_model_variables)
        /\ (call.known_future_variables # <<>> \/ call.additional_model_variables # <<>>)
              => ret.value # Len(Receiver.full)

\* C5, amended: len() of every Input TensorIndex is len(prognostic) +
\* len(forcing) + 2 * len(known_future) + len(additional); for the .input of a
\* ModelIndex it differs from len(full) whenever known_future or additional is
\* not empty.
C5_InputLength ==
    (ret.op = "len" /\ Receiver.cls = "InputTensorIndex") =>
        LET known == IF call.op = "DataIndex" THEN <<>> ELSE call.known_future_variables
            additional ==
                IF call.op = "DataIndex" THEN <<>> ELSE call.additional_model_variables
        IN  /\ ret.value = Len(Receiver.prognostic) + Len(Receiver.forcing)
                            + 2 * Len(known) + Len(additional)
            /\ (call.op = "ModelIndex" /\ (known # <<>> \/ additional # <<>>))
                  => ret.value # Len(Receiver.full)

\* len(.input) of a ModelIndex with a known-future variable, a forcing and a
\* prognostic variable
C5_Witness ==
    /\ ret.op = "len"
    /\ ret.of = "input"
    /\ call.op = "ModelIndex"
    /\ call.known_future_variables # <<>>
    /\ self.input.forcing # <<>>
    /\ self.input.prognostic # <<>>

\* C6: the prognostic list derived by DataIndex and ModelIndex has no name of
\* diagnostic, forcing or targets, has every other key of the input mapping
\* once, in the order of the mapping's keys, and with the three lists within the
\* keys the four together are the keys.
C6_PrognosticIsComplement ==
    IsVariableIndex(self) =>
        LET keys == InputMap(call)
            given == Range(call.diagnostic) \cup Range(call.forcing) \cup Range(call.targets)
            KeyIndex(name) == CHOOSE i \in DOMAIN keys : keys[i][1] = name
        IN  /\ Range(self.prognostic) \cap given = {}
            /\ Range(self.prognostic) = Keys(keys) \ given
            /\ NoDuplicates(self.prognostic)
            /\ \A i \in DOMAIN self.prognostic : \A j \in DOMAIN self.prognostic :
                  i < j => KeyIndex(self.prognostic[i]) < KeyIndex(self.prognostic[j])
            /\ given \subseteq Keys(keys) =>
                  Range(self.prognostic) \cup given = Keys(keys)

\* a forcing variable, a target and a prognostic variable, all keys
C6_Witness ==
    /\ IsVariableIndex(self)
    /\ Len(self.prognostic) = 1
    /\ call.forcing # <<>>
    /\ call.targets # <<>>
    /\ Len(InputMap(call)) = 2

\* C8: the lists and the mapping's keys given in any other order build the same
\* index: it raises when the first does, and else has the same five arrays in
\* .input and .output, compares equal to it and has the same todict().  (Stated
\* of the object as built and of its todict(); len() changes neither.)
C8_LayoutIndependentOfOrder ==
    (call # Idle /\ ret.op # "len") =>
        \A again \in {Construct(c) : c \in PermutedCalls(call)} :
            /\ Raised(again) <=> Raised(self)
            /\ ~Raised(self) =>
                  /\ ToDictOf(again) = ToDictOf(self)
                  /\ PyEq(self, again) = "True"
                  /\ ret.op = "todict" => ret.value = ToDictOf(again)

\* todict() of a DataIndex of two prognostic variables whose mapping can be
\* given in another order
C8_Witness ==
    /\ ret.op = "todict"
    /\ self.cls = "DataIndex"
    /\ Len(self.input.prognostic) = 2
    /\ self.input.prognostic[1] < self.input.prognostic[2]
    /\ \E c \in PermutedCalls(call) : c # call

\* C9: for a DataIndex or ModelIndex, input.full is the disjoint union of
\* input.prognostic and input.forcing, output.full the union of
\* output.diagnostic and output.targets; for a DataIndex len() of each view is
\* the length of its full.
C9_FullIsUnionOfRoleArrays ==
    IsVariableIndex(self) =>
        /\ Range(self.input.prognostic) \cap Range(self.input.forcing) = {}
        /\ Range(self.input.full) =
              Range(self.input.prognostic) \cup Range(self.input.forcing)
        /\ Len(self.input.full) = Len(self.input.prognostic) + Len(self.input.forcing)
        /\ Range(self.output.full) =
              Range(self.output.diagnostic) \cup Range(self.output.targets)
        /\ self.cls = "DataIndex" =>
              /\ len(self.input) = Len(self.input.full)
              /\ len(self.output) = Len(self.output.full)

\* C10: for a DataIndex every position of the mapping is in input.full or in
\* output.full; it is in both exactly when its name is in forcing and in
\* diagnostic or targets; with forcing apart from both the two split the positions.
C10_EveryPositionIndexed ==
    self.cls = "DataIndex" =>
        LET dict == call.name_to_index
            into == Range(self.input.full)
            out == Range(self.output.full)
            both == Range(call.forcing)
                        \cap (Range(call.diagnostic) \cup Range(call.targets))
        IN  /\ \A i \in DOMAIN dict : dict[i][2] \in into \cup out
            /\ \A i \in DOMAIN dict :
                  (dict[i][2] \in into /\ dict[i][2] \in out) <=> dict[i][1] \in both
            /\ both = {} =>
                  /\ into \cap out = {}
                  /\ into \cup out = PositionsOf(dict, Keys(dict))

\* C7: == of two TensorIndex objects does not raise and is True exactly when the
\* five arrays of one have the lengths and the elements of the other's; == of
\* two DataIndex objects is True exactly when .input == .input and
\* .output == .output are.
C7_EqualIffSameArrays ==
    ret.op = "eq" =>
        /\ ret.value # "RuntimeError"
        /\ (IsTensorIndex(self) /\ IsTensorIndex(other)) =>
              (ret.value = "True" <=> TensorToDict(self) = TensorToDict(other))
        /\ (IsVariableIndex(self) /\ IsVariableIndex(other)) =>
              (ret.value = "True" <=>
                  /\ PyEq(self.input, other.input) = "True"
                  /\ PyEq(self.output, other.output) = "True")

====
